---- MODULE Spec2Model ----
(***************************************************************************)
(* A model of led_controller.py: an HTTP front end (do_POST / do_GET,      *)
(* served one request at a time by the main thread of HTTPServer), a       *)
(* command queue, one daemon worker thread that applies queued commands    *)
(* to the NeoPixel strip under _led_lock, and the SIGINT/SIGTERM handler   *)
(* that runs on top of the main thread.                                    *)
(*                                                                         *)
(* Brightness levels are held in tenths (5 stands for 0.5).  Colour        *)
(* strings are sequences of one-character strings.                         *)
(***************************************************************************)
EXTENDS Integers, Sequences, FiniteSets, TLC

\* ------------------------------------------------------------- bounds
\* Requests the server reads in one run.
MaxRequests == 3
\* Entries waiting in the (unbounded) Queue at one time.
MaxQueue == 2
\* Thread objects start_processing_thread can create in one run.
MaxThreads == 2

\* ---------------------------------------------------------- constants
LED_COUNT == 10
\* brightness=0.5 of the NeoPixel constructor, in tenths.
InitialBrightness == 5
\* The clamp bounds 0.0 and 1.0 of set_brightness, in tenths.
MinBrightness == 0
MaxBrightness == 10
\* The default 0.5 of data.get('brightness', 0.5), in tenths.
DefaultBrightness == 5

Producers == {1, 2}
Threads == 1..MaxThreads
None == 0

\* ------------------------------------------------------ colour strings
Red == <<"#", "F", "F", "0", "0", "0", "0">>
Green == <<"#", "0", "0", "f", "f", "0", "0">>
NoHash == <<"F", "F", "0", "0", "0", "0">>
NotHex == <<"#", "G", "G", "0", "0", "0", "0">>
Short == <<"#", "F", "F", "F">>
DefaultColor == <<"#", "0", "0", "0", "0", "0", "0">>

Black == <<0, 0, 0>>

\* The value of one hexadecimal digit, -1 for any other character.
HexDigit(c) ==
    CASE c = "0" -> 0 [] c = "1" -> 1 [] c = "2" -> 2 [] c = "3" -> 3
      [] c = "4" -> 4 [] c = "5" -> 5 [] c = "6" -> 6 [] c = "7" -> 7
      [] c = "8" -> 8 [] c = "9" -> 9
      [] c \in {"a", "A"} -> 10 [] c \in {"b", "B"} -> 11
      [] c \in {"c", "C"} -> 12 [] c \in {"d", "D"} -> 13
      [] c \in {"e", "E"} -> 14 [] c \in {"f", "F"} -> 15
      [] OTHER -> -1

\* str.lstrip('#'): every leading '#' is dropped.
RECURSIVE LStrip(_)
LStrip(s) ==
    IF s # <<>> /\ Head(s) = "#" THEN LStrip(Tail(s)) ELSE s

\* s[i:j] of Python for 0 <= i <= j, indices counted from 0 and clipped.
Slice(s, i, j) ==
    LET lo == IF i < Len(s) THEN i ELSE Len(s)
        hi == IF j < Len(s) THEN j ELSE Len(s)
    IN  [k \in 1..(hi - lo) |-> s[lo + k]]

\* int(s, 16) for a string of hexadecimal digits: -1 stands for ValueError
\* (the empty string, or a character that is no digit).
RECURSIVE IntBase16(_)
IntBase16(s) ==
    IF s = <<>> THEN -1
    ELSE LET d == HexDigit(s[Len(s)])
             rest == SubSeq(s, 1, Len(s) - 1)
         IN  IF d < 0 THEN -1
             ELSE IF rest = <<>> THEN d
             ELSE LET r == IntBase16(rest)
                  IN  IF r < 0 THEN -1 ELSE 16 * r + d

\* hex_to_rgb: ok is FALSE where the code raises ValueError.
hex_to_rgb(hex_color) ==
    LET h == LStrip(hex_color)
        r == IntBase16(Slice(h, 0, 2))
        g == IntBase16(Slice(h, 2, 4))
        b == IntBase16(Slice(h, 4, 6))
    IN  IF r < 0 \/ g < 0 \/ b < 0
        THEN [ok |-> FALSE, rgb |-> Black]
        ELSE [ok |-> TRUE, rgb |-> <<r, g, b>>]

\* --------------------------------------------------------- JSON values
\* A JSON field is a tagged value; "absent" is a key the object lacks.
Absent == [t |-> "absent", v |-> 0]
Int_(n) == [t |-> "int", v |-> n]
Text == [t |-> "str", v |-> 0]
AbsentColor == [t |-> "absent", s |-> <<>>]
Color(s) == [t |-> "str", s |-> s]
NullColor == [t |-> "null", s |-> <<>>]
AbsentList == [t |-> "absent", l |-> <<>>]
NullList == [t |-> "null", l |-> <<>>]
List(l) == [t |-> "list", l |-> l]
Pixel(i, c) == [index |-> i, color |-> c]

\* A decoded request body: kind "malformed" is a body json.loads rejects,
\* "array" a JSON value that is no object, "object" a JSON object.
Body(kind, command, index, color, pixels, brightness) ==
    [kind |-> kind, command |-> command, index |-> index, color |-> color,
     pixels |-> pixels, brightness |-> brightness]
Object(command, index, color, pixels, brightness) ==
    Body("object", command, index, color, pixels, brightness)
SetPixel(i, c) == Object("set_pixel", i, c, AbsentList, Absent)
SetPixels(l) == Object("set_pixels", Absent, AbsentColor, l, Absent)
Show == Object("show", Absent, AbsentColor, AbsentList, Absent)
SetBrightness(b) == Object("set_brightness", Absent, AbsentColor, AbsentList, b)
GetConfig == Object("get_config", Absent, AbsentColor, AbsentList, Absent)
Blink == Object("blink", Absent, AbsentColor, AbsentList, Absent)
NoCommand == Object("None", Absent, AbsentColor, AbsentList, Absent)
Malformed == Body("malformed", "None", Absent, AbsentColor, AbsentList, Absent)
Array == Body("array", "None", Absent, AbsentColor, AbsentList, Absent)

\* ------------------------------------------------------ the NeoPixel strip
AllBlack == [i \in 0..(LED_COUNT - 1) |-> Black]

\* The range test of line 74 / 82: 0 <= index < LED_COUNT.
InRange(index) == 0 <= index /\ index < LED_COUNT

\* A range test that lets an index past the end wrap around, as Python's
\* negative indices do.
PixelRuleWrapped(buf, index, color) ==
    CASE index.t = "absent" -> [ok |-> TRUE, buf |-> buf]
      [] index.t = "str" -> [ok |-> FALSE, buf |-> buf]
      [] OTHER ->
           IF color.t = "null" THEN [ok |-> FALSE, buf |-> buf]
           ELSE LET c == hex_to_rgb(IF color.t = "absent" THEN DefaultColor
                                    ELSE color.s)
                IN  IF c.ok
                    THEN [ok |-> TRUE,
                          buf |-> [buf EXCEPT ![index.v % LED_COUNT] = c.rgb]]
                    ELSE [ok |-> FALSE, buf |-> buf]

\* Lines 71-75 and 80-83: what one (index, color) pair does to the buffer.
\* ok is FALSE where the code raises: a string index fails the comparison
\* (TypeError), a null colour has no lstrip (AttributeError), a colour that
\* is not hexadecimal fails int() (ValueError).  A missing index (None) and
\* an integer out of range leave the buffer alone, the colour unread.
PixelRule(buf, index, color) ==
    CASE index.t = "absent" -> [ok |-> TRUE, buf |-> buf]
      [] index.t = "str" -> [ok |-> FALSE, buf |-> buf]
      [] OTHER ->
           IF ~InRange(index.v) THEN [ok |-> TRUE, buf |-> buf]
           ELSE IF color.t = "null" THEN [ok |-> FALSE, buf |-> buf]
           ELSE LET c == hex_to_rgb(IF color.t = "absent" THEN DefaultColor
                                    ELSE color.s)
                IN  IF c.ok
                    THEN [ok |-> TRUE, buf |-> [buf EXCEPT ![index.v] = c.rgb]]
                    ELSE [ok |-> FALSE, buf |-> buf]

\* A level stored as given.
Unclamped(level) == level

\* Line 90: max(0.0, min(1.0, brightness)).
Clamp(level) ==
    LET m == IF level < MaxBrightness THEN level ELSE MaxBrightness
    IN  IF m > MinBrightness THEN m ELSE MinBrightness

\* Lines 89-91: ok is FALSE where min() raises TypeError (a string level).
BrightnessRule(level) ==
    CASE level.t = "absent" -> [ok |-> TRUE, v |-> Clamp(DefaultBrightness)]
      [] level.t = "str" -> [ok |-> FALSE, v |-> 0]
      [] OTHER -> [ok |-> TRUE, v |-> Clamp(level.v)]

\* pixels.show(): the device takes the buffer and the brightness.
Flush(buf, br) == [buf |-> buf, brightness |-> br]

\* The list a set_pixels command iterates: data.get('pixels', []).
PixelData(data) == IF data.pixels.t = "list" THEN data.pixels.l ELSE <<>>

\* Lines 79-83 run to the end or to the first entry that raises.
RECURSIVE SetPixelsLoop(_, _)
SetPixelsLoop(buf, l) ==
    IF l = <<>> THEN [ok |-> TRUE, buf |-> buf]
    ELSE LET r == PixelRule(buf, Head(l).index, Head(l).color)
         IN  IF r.ok THEN SetPixelsLoop(r.buf, Tail(l)) ELSE r

\* _execute_led_command run without interruption on a strip state
\* [pixels, brightness, device, flushes]: what a lone caller would see.
ExecuteLedCommand(st, data) ==
    CASE data.command = "set_pixel" ->
           [st EXCEPT !.pixels = PixelRule(@, data.index, data.color).buf]
      [] data.command = "set_pixels" ->
           IF data.pixels.t = "null" THEN st
           ELSE [st EXCEPT !.pixels = SetPixelsLoop(@, PixelData(data)).buf]
      [] data.command = "show" ->
           [st EXCEPT !.device = Flush(st.pixels, st.brightness),
                      !.flushes = @ + 1]
      [] data.command = "set_brightness" ->
           LET r == BrightnessRule(data.brightness)
           IN  IF r.ok THEN [st EXCEPT !.brightness = r.v] ELSE st
      [] OTHER -> st

InitialStrip ==
    [pixels |-> AllBlack, brightness |-> InitialBrightness,
     device |-> Flush(AllBlack, InitialBrightness), flushes |-> 0]

\* ------------------------------------------- the interpretation rules
\* The commands of the data model: an integer index, a colour "#RRGGBB"
\* (black when absent), a list of such pairs, a numeric level.
TypedColor(c) ==
    \/ c.t = "absent"
    \/ /\ c.t = "str" /\ Len(c.s) = 7 /\ c.s[1] = "#"
       /\ \A k \in 2..7 : HexDigit(c.s[k]) >= 0
TypedPixel(index, color) == index.t = "int" /\ TypedColor(color)
Typed(data) ==
    CASE data.command = "set_pixel" -> TypedPixel(data.index, data.color)
      [] data.command = "set_pixels" ->
           /\ data.pixels.t = "list"
           /\ \A k \in 1..Len(data.pixels.l) :
                TypedPixel(data.pixels.l[k].index, data.pixels.l[k].color)
      [] data.command = "show" -> TRUE
      [] data.command = "set_brightness" -> data.brightness.t = "int"
      [] OTHER -> FALSE

\* The 24-bit value of a typed colour, as a triple.
RefColor(c) ==
    IF c.t = "absent" THEN Black
    ELSE <<16 * HexDigit(c.s[2]) + HexDigit(c.s[3]),
           16 * HexDigit(c.s[4]) + HexDigit(c.s[5]),
           16 * HexDigit(c.s[6]) + HexDigit(c.s[7])>>

\* SetPixel: write the colour if the index is in range, else nothing.
RefSetPixel(buf, index, color) ==
    IF index.v \in 0..(LED_COUNT - 1)
    THEN [buf EXCEPT ![index.v] = RefColor(color)]
    ELSE buf

\* SetPixels: the SetPixel rule for every entry, in list order.
RECURSIVE RefSetPixels(_, _)
RefSetPixels(buf, l) ==
    IF l = <<>> THEN buf
    ELSE RefSetPixels(RefSetPixel(buf, Head(l).index, Head(l).color), Tail(l))

\* One typed command applied to a strip [pixels, brightness, device,
\* flushes] by its interpretation rule.
RefRule(st, data) ==
    CASE data.command = "set_pixel" ->
           [st EXCEPT !.pixels = RefSetPixel(@, data.index, data.color)]
      [] data.command = "set_pixels" ->
           [st EXCEPT !.pixels = RefSetPixels(@, data.pixels.l)]
      [] data.command = "show" ->
           [st EXCEPT !.device = [buf |-> st.pixels,
                                  brightness |-> st.brightness],
                      !.flushes = @ + 1]
      [] data.command = "set_brightness" ->
           [st EXCEPT !.brightness =
              IF data.brightness.v < 0 THEN 0
              ELSE IF data.brightness.v > 10 THEN 10 ELSE data.brightness.v]
      [] OTHER -> st

\* ------------------------------------------------------------ requests
Request(method, path, body, prod) ==
    [method |-> method, path |-> path, body |-> body, prod |-> prod]
NoRequest == Request("none", "", Malformed, None)
Post(body, prod) == Request("POST", "/", body, prod)
GetStatus == Request("GET", "/status", Malformed, 1)
GetOther == Request("GET", "/other", Malformed, 1)
Options == Request("OPTIONS", "/", Malformed, 1)

\* The requests the clients of one run send, in any order and number up to
\* MaxRequests: a run takes one of these workloads.
PixelWorkload ==
    { Post(SetPixel(Int_(0), Color(Red)), 1),
      Post(SetPixel(Int_(1), Color(Green)), 1),
      Post(SetPixel(Int_(99), Color(Red)), 1),
      Post(SetPixels(List(<<Pixel(Int_(1), Color(Red)),
                            Pixel(Int_(0), AbsentColor)>>)), 1),
      Post(Show, 1),
      GetStatus }
ProducerWorkload ==
    { Post(SetPixel(Int_(0), Color(NoHash)), 1),
      Post(SetPixel(Int_(0), Color(Green)), 2),
      Post(SetBrightness(Int_(2)), 2),
      Post(Show, 1),
      Post(Show, 2) }
BrightnessWorkload ==
    { Post(SetBrightness(Int_(32)), 1),
      Post(SetBrightness(Int_(-50)), 1),
      Post(SetBrightness(Int_(15)), 1),
      Post(SetBrightness(Absent), 1),
      Post(Show, 1),
      Post(GetConfig, 1) }
ErrorWorkload ==
    { Post(SetPixel(Int_(0), Color(NotHex)), 1),
      Post(SetPixel(Int_(1), Color(Green)), 1),
      Post(SetPixels(List(<<Pixel(Int_(0), Color(Red)),
                            Pixel(Int_(5), Color(Short)),
                            Pixel(Int_(1), Color(Green))>>)), 1),
      Post(SetBrightness(Text), 1),
      Post(Show, 1) }
GatewayWorkload ==
    { Post(Malformed, 1),
      Post(Array, 1),
      Post(NoCommand, 1),
      Post(Blink, 1),
      Post(GetConfig, 1),
      Post(SetPixels(NullList), 1),
      Post(Show, 1),
      GetStatus,
      GetOther,
      Options }
RangeWorkload ==
    { Post(SetPixel(Int_(-1), Color(Red)), 1),
      Post(SetPixel(Int_(LED_COUNT), Color(Red)), 1),
      Post(SetPixel(Absent, Color(Green)), 1) }
Workloads ==
    { PixelWorkload, ProducerWorkload, BrightnessWorkload, ErrorWorkload,
      GatewayWorkload, RangeWorkload }

\* Line 119: the commands do_POST queues.
QueuedCommands == {"set_pixel", "set_pixels", "show", "set_brightness"}

Response(status, success, br, qsize) ==
    [status |-> status, success |-> success, brightness |-> br,
     queue_size |-> qsize]
NoResponse == Response(0, FALSE, -1, -1)

NoEntry == [id |-> 0, prod |-> None, data |-> Malformed]

\* History value: no set_brightness entry yet.
NoLevel == [t |-> "none", v |-> 0]

\* --------------------------------------------------------------- state
VARIABLES
    workload,           \* the requests this run's clients send
    mpc,                \* where the main thread is (below any signal handler)
    req,                \* the request the main thread is handling
    resp,               \* the response written for it
    spc,                \* where the signal handler is ("none": not running)
    led_lock,           \* _led_lock is held
    command_queue,      \* _command_queue
    processing_thread,  \* _processing_thread: None or a thread
    shutdown_flag,      \* _shutdown_flag
    wpc,                \* where each worker thread is
    command_data,       \* each worker's dequeued entry
    wi,                 \* each worker's place in a set_pixels list
    raised,             \* the exception each worker's command raised, if any
    pixels,             \* the strip's colour buffer
    brightness,         \* pixels.brightness
    device,             \* what the last show() sent to the LEDs
    flushes,            \* calls of pixels.show()
    nthreads,           \* Thread objects created
    nreq,               \* requests read
    enqueued,           \* history: entries put on the queue
    reqEnq,             \* history: the request in hand has put an entry
    started,            \* history: entries in the order their application began
    finished,           \* history: applications that ended
    prevFailed,         \* history: the application before this one raised
    seqStrip,           \* history: the strip of a lone caller running the
                        \* enqueued commands in order
    typed,              \* history: every entry put so far is a typed command
    refStrip,           \* history: the interpretation rules applied to the
                        \* typed entries in the order they were put
    putLevel,           \* history: the brightness field of the last
                        \* set_brightness entry put
    appliedLevel        \* history: the brightness field of the last
                        \* set_brightness entry the worker applied

strip == <<pixels, brightness, device, flushes>>
mainVars == <<mpc, req, resp, nreq, reqEnq>>
workerVars == <<wpc, command_data, wi, raised>>
threadVars == <<processing_thread, nthreads>>
history == <<started, finished, prevFailed>>
reference == <<typed, refStrip, putLevel>>
vars == <<workload, mpc, req, resp, spc, led_lock, command_queue, processing_thread,
          shutdown_flag, wpc, command_data, wi, raised, pixels, brightness,
          device, flushes, nthreads, nreq, enqueued, reqEnq,
          started, finished, prevFailed, seqStrip, typed,
          refStrip, putLevel, appliedLevel>>

Init ==
    /\ workload \in Workloads
    /\ mpc = "main"
    /\ req = NoRequest
    /\ resp = NoResponse
    /\ spc = "none"
    /\ led_lock = FALSE
    /\ command_queue = <<>>
    /\ processing_thread = None
    /\ shutdown_flag = FALSE
    /\ wpc = [t \in Threads |-> "unborn"]
    /\ command_data = [t \in Threads |-> NoEntry]
    /\ wi = [t \in Threads |-> 0]
    /\ raised = [t \in Threads |-> FALSE]
    /\ pixels = AllBlack
    /\ brightness = InitialBrightness
    /\ device = Flush(AllBlack, InitialBrightness)
    /\ flushes = 0
    /\ nthreads = 0
    /\ nreq = 0
    /\ enqueued = 0
    /\ reqEnq = FALSE
    /\ started = <<>>
    /\ finished = 0
    /\ prevFailed = FALSE
    /\ seqStrip = InitialStrip
    /\ typed = TRUE
    /\ refStrip = InitialStrip
    /\ putLevel = NoLevel
    /\ appliedLevel = NoLevel

\* Thread.is_alive(): started and not yet returned from _process_commands.
is_alive(t) == wpc[t] \notin {"unborn", "new", "exited"}

\* The main thread runs its own code only while no signal handler sits on
\* top of it, and nothing runs once the process has exited.
MainRuns == spc = "none"
ProcessRuns == spc # "terminated"

\* ------------------------------------------- start_processing_thread
\* A start that never looks at the thread it recorded.
StartUnguarded == TRUE

\* Line 36: a thread is created when none is recorded or it is not alive.
StartGuard ==
    IF processing_thread = None THEN TRUE ELSE ~is_alive(processing_thread)

\* Line 206: __main__ calls start_processing_thread before it serves.
MainStart ==
    /\ MainRuns /\ mpc = "main"
    /\ mpc' = "start_check"
    /\ UNCHANGED <<workload, appliedLevel, reference, req, resp, nreq, reqEnq, spc, led_lock, command_queue,
                   threadVars, shutdown_flag, workerVars, strip, enqueued,
                   history, seqStrip>>

\* A further call of start_processing_thread while the server runs.
StartAgain ==
    /\ MainRuns /\ mpc = "serve"
    /\ mpc' = "start_check"
    /\ UNCHANGED <<workload, appliedLevel, reference, req, resp, nreq, reqEnq, spc, led_lock, command_queue,
                   threadVars, shutdown_flag, workerVars, strip, enqueued,
                   history, seqStrip>>

\* Line 36.
StartCheck ==
    /\ MainRuns /\ mpc = "start_check"
    /\ mpc' = IF StartGuard /\ nthreads < MaxThreads THEN "start_create"
              ELSE "serve"
    /\ UNCHANGED <<workload, appliedLevel, reference, req, resp, nreq, reqEnq, spc, led_lock, command_queue,
                   threadVars, shutdown_flag, workerVars, strip, enqueued,
                   history, seqStrip>>

\* Lines 37-40: the Thread object is recorded, not yet started.
StartCreate ==
    /\ MainRuns /\ mpc = "start_create"
    /\ nthreads' = nthreads + 1
    /\ processing_thread' = nthreads + 1
    /\ wpc' = [wpc EXCEPT ![nthreads + 1] = "new"]
    /\ mpc' = "start_run"
    /\ UNCHANGED <<workload, appliedLevel, reference, req, resp, nreq, reqEnq, spc, led_lock, command_queue,
                   shutdown_flag, command_data, wi, raised, strip, enqueued,
                   history, seqStrip>>

\* Line 41: Thread.start().
StartRun ==
    /\ MainRuns /\ mpc = "start_run"
    /\ wpc' = [wpc EXCEPT ![processing_thread] = "loop"]
    /\ mpc' = "serve"
    /\ UNCHANGED <<workload, appliedLevel, reference, req, resp, nreq, reqEnq, spc, led_lock, command_queue,
                   threadVars, shutdown_flag, command_data, wi, raised, strip,
                   enqueued, history, seqStrip>>

\* ------------------------------------------------------- serve_forever
\* Lines 154-160: the except branch of do_POST.
Send400 == Response(400, FALSE, -1, -1)

\* The handler returns: the server waits for the next request.
Answer(r) ==
    /\ resp' = r
    /\ req' = NoRequest
    /\ mpc' = "serve"

\* Line 214: the server reads a request.
Read(r) ==
    /\ MainRuns /\ mpc = "serve" /\ nreq < MaxRequests
    /\ nreq' = nreq + 1
    /\ reqEnq' = FALSE

\* Lines 105-108.
DoOptions ==
    /\ \E r \in workload : r.method = "OPTIONS" /\ Read(r)
    /\ Answer(Response(200, FALSE, -1, -1))
    /\ UNCHANGED <<workload, appliedLevel, reference, spc, led_lock, command_queue, threadVars, shutdown_flag,
                   workerVars, strip, enqueued, history, seqStrip>>

\* Lines 111-119, 136, 145-146: do_POST decodes the body and picks the
\* branch.  A body that does not parse, a body that is no object (no .get)
\* and a command outside the two lists raise, and the except branch
\* answers 400.  A command that will be queued is read only while the
\* queue has room: the bound on the queue is a bound on the input.
DoPost ==
    /\ \E r \in workload :
         /\ r.method = "POST" /\ Read(r)
         /\ IF r.body.kind # "object"
            THEN Answer(Send400)
            ELSE IF r.body.command \in QueuedCommands
            THEN /\ Len(command_queue) < MaxQueue
                 /\ mpc' = "put" /\ req' = r /\ resp' = NoResponse
            ELSE IF r.body.command = "get_config"
            THEN mpc' = "config_lock" /\ req' = r /\ resp' = NoResponse
            ELSE Answer(Send400)
    /\ UNCHANGED <<workload, appliedLevel, reference, spc, led_lock, command_queue, threadVars, shutdown_flag,
                   workerVars, strip, enqueued, history, seqStrip>>

\* What line 125 leaves in the queue.
Put(q, e) == Append(q, e)

\* A put that takes the strip's lock.
PutWaitsForStrip == ~led_lock

\* Lines 29, 125: Queue() has no maxsize and put() takes no lock but the
\* queue's own: the call returns without waiting.
PutReady == TRUE

\* The handler is at line 125 and the call can return.
PutEnabled == MainRuns /\ mpc = "put" /\ PutReady

\* Lines 121-125: Queue.put appends the entry.
DoPostPut ==
    /\ PutEnabled
    /\ command_queue' = Put(command_queue,
         [id |-> enqueued + 1, prod |-> req.prod, data |-> req.body])
    /\ enqueued' = enqueued + 1
    /\ reqEnq' = TRUE
    /\ seqStrip' = ExecuteLedCommand(seqStrip, req.body)
    /\ typed' = (typed /\ Typed(req.body))
    /\ refStrip' = IF typed' THEN RefRule(refStrip, req.body) ELSE refStrip
    /\ putLevel' = IF req.body.command = "set_brightness"
                   THEN req.body.brightness ELSE putLevel
    /\ mpc' = "message"
    /\ UNCHANGED <<workload, appliedLevel, req, resp, nreq, spc, led_lock, threadVars, shutdown_flag,
                   workerVars, strip, history>>

\* Lines 127-134, 148-152: the message is built after the put; for
\* set_pixels it takes len() of the pixels field, which raises for null.
DoPostMessage ==
    /\ MainRuns /\ mpc = "message"
    /\ Answer(IF req.body.command = "set_pixels" /\ req.body.pixels.t = "null"
              THEN Send400
              ELSE Response(200, TRUE, -1, -1))
    /\ UNCHANGED <<workload, appliedLevel, reference, nreq, reqEnq, spc, led_lock, command_queue, threadVars,
                   shutdown_flag, workerVars, strip, enqueued, history,
                   seqStrip>>

\* An acquire that does not wait.
LockIgnored == TRUE

\* Line 28: threading.Lock.acquire() returns only while the lock is free.
LockFree == ~led_lock

\* A read that does not take the lock.
ReadUnlocked(at, next) ==
    /\ MainRuns /\ mpc = at
    /\ mpc' = next
    /\ UNCHANGED <<workload, appliedLevel, reference, req, resp, nreq, reqEnq, spc,
                   led_lock, command_queue, threadVars, shutdown_flag,
                   workerVars, strip, enqueued, history, seqStrip>>

\* A read that reports the configured brightness and one that reports
\* every entry ever put.
ReadBrightnessConfigured == InitialBrightness
QueueSizeTotal == enqueued

\* Lines 141 and 168: pixels.brightness.  Line 170: qsize(), the entries
\* waiting.
ReadBrightness == brightness
QueueSize == Len(command_queue)

\* Line 138 (get_config) and line 164 (status): with _led_lock.
AcquireForRead(at, next) ==
    /\ MainRuns /\ mpc = at
    /\ LockFree
    /\ led_lock' = TRUE
    /\ mpc' = next
    /\ UNCHANGED <<workload, appliedLevel, reference, req, resp, nreq, reqEnq, spc, command_queue, threadVars,
                   shutdown_flag, workerVars, strip, enqueued, history,
                   seqStrip>>

ConfigLock == AcquireForRead("config_lock", "config_read")

\* Lines 139-152: read under the lock, release, answer 200.
ConfigRead ==
    /\ MainRuns /\ mpc = "config_read"
    /\ Answer(Response(200, TRUE, ReadBrightness, -1))
    /\ led_lock' = FALSE
    /\ UNCHANGED <<workload, appliedLevel, reference, nreq, reqEnq, spc, command_queue, threadVars,
                   shutdown_flag, workerVars, strip, enqueued, history,
                   seqStrip>>

\* Lines 162-163, 179-181: do_GET.
DoGet ==
    /\ \E r \in workload :
         /\ r.method = "GET" /\ Read(r)
         /\ IF r.path = "/status"
            THEN mpc' = "status_lock" /\ req' = r /\ resp' = NoResponse
            ELSE Answer(Response(404, FALSE, -1, -1))
    /\ UNCHANGED <<workload, appliedLevel, reference, spc, led_lock, command_queue, threadVars, shutdown_flag,
                   workerVars, strip, enqueued, history, seqStrip>>

StatusLock == AcquireForRead("status_lock", "status_read")

\* Lines 165-178.
StatusRead ==
    /\ MainRuns /\ mpc = "status_read"
    /\ Answer(Response(200, TRUE, ReadBrightness, QueueSize))
    /\ led_lock' = FALSE
    /\ UNCHANGED <<workload, appliedLevel, reference, nreq, reqEnq, spc, command_queue, threadVars,
                   shutdown_flag, workerVars, strip, enqueued, history,
                   seqStrip>>

\* ---------------------------------------------------- _process_commands
\* Line 46: the loop test.
WorkerLoop(t) ==
    /\ ProcessRuns /\ wpc[t] = "loop"
    /\ wpc' = [wpc EXCEPT ![t] = IF shutdown_flag THEN "exited" ELSE "get"]
    /\ UNCHANGED <<workload, appliedLevel, reference, mainVars, spc, led_lock, command_queue, threadVars,
                   shutdown_flag, command_data, wi, raised, strip, enqueued,
                   history, seqStrip>>

\* A Queue that hands out its newest entry (a LifoQueue) and one whose
\* get leaves the entry in place.
DequeuedNewest(q) == q[Len(q)]
RemainingAll(q) == q

\* The entry Queue.get removes: the head.
Dequeued(q) == Head(q)
Remaining(q) == Tail(q)

\* Line 49: get(timeout=0.1) returns the head of a queue that has one.
WorkerGet(t) ==
    /\ ProcessRuns /\ wpc[t] = "get"
    /\ command_queue # <<>>
    /\ command_data' = [command_data EXCEPT ![t] = Dequeued(command_queue)]
    /\ command_queue' = Remaining(command_queue)
    /\ wpc' = [wpc EXCEPT ![t] = "lock"]
    /\ UNCHANGED <<workload, appliedLevel, reference, mainVars, spc, led_lock, threadVars, shutdown_flag, wi,
                   raised, strip, enqueued, history, seqStrip>>

\* Lines 49, 59-60: the wait times out on an empty queue, Empty is raised
\* and the loop goes on.
WorkerEmpty(t) ==
    /\ ProcessRuns /\ wpc[t] = "get"
    /\ command_queue = <<>>
    /\ wpc' = [wpc EXCEPT ![t] = "loop"]
    /\ UNCHANGED <<workload, appliedLevel, reference, mainVars, spc, led_lock, command_queue, threadVars,
                   shutdown_flag, command_data, wi, raised, strip, enqueued,
                   history, seqStrip>>

\* Line 51: with cls._led_lock.
WorkerLock(t) ==
    /\ ProcessRuns /\ wpc[t] = "lock"
    /\ LockFree
    /\ led_lock' = TRUE
    /\ wpc' = [wpc EXCEPT ![t] = "execute"]
    /\ wi' = [wi EXCEPT ![t] = 1]
    /\ raised' = [raised EXCEPT ![t] = FALSE]
    /\ started' = Append(started, [id |-> command_data[t].id,
                                   prod |-> command_data[t].prod])
    /\ UNCHANGED <<workload, appliedLevel, reference, mainVars, spc, command_queue, threadVars, shutdown_flag,
                   command_data, strip, enqueued, finished, prevFailed,
                   seqStrip>>

\* The worker leaves _execute_led_command: normally, or by an exception
\* that line 54 catches.
Leave(t, ok) ==
    /\ wpc' = [wpc EXCEPT ![t] = "finally"]
    /\ raised' = [raised EXCEPT ![t] = ~ok]

\* Lines 70-75.
ExecSetPixel(t) ==
    /\ ProcessRuns /\ wpc[t] = "execute"
    /\ command_data[t].data.command = "set_pixel"
    /\ LET d == command_data[t].data
           r == PixelRule(pixels, d.index, d.color)
       IN  pixels' = r.buf /\ Leave(t, r.ok)
    /\ UNCHANGED <<workload, appliedLevel, reference, mainVars, spc, led_lock, command_queue, threadVars,
                   shutdown_flag, command_data, wi, brightness, device,
                   flushes, enqueued, history, seqStrip>>

\* Lines 77-83: one turn of the for loop, or its end.  A pixels field that
\* is null cannot be iterated (TypeError).
ExecSetPixels(t) ==
    /\ ProcessRuns /\ wpc[t] = "execute"
    /\ command_data[t].data.command = "set_pixels"
    /\ LET d == command_data[t].data
           l == PixelData(d)
       IN  IF d.pixels.t = "null"
           THEN pixels' = pixels /\ wi' = wi /\ Leave(t, FALSE)
           ELSE IF wi[t] > Len(l)
           THEN pixels' = pixels /\ wi' = wi /\ Leave(t, TRUE)
           ELSE LET r == PixelRule(pixels, l[wi[t]].index, l[wi[t]].color)
                IN  /\ pixels' = r.buf
                    /\ IF r.ok
                       THEN /\ wi' = [wi EXCEPT ![t] = @ + 1]
                            /\ UNCHANGED <<workload, appliedLevel, reference, wpc, raised>>
                       ELSE wi' = wi /\ Leave(t, FALSE)
    /\ UNCHANGED <<workload, appliedLevel, reference, mainVars, spc, led_lock, command_queue, threadVars,
                   shutdown_flag, command_data, brightness, device, flushes,
                   enqueued, history, seqStrip>>

\* Lines 85-86.
ExecShow(t) ==
    /\ ProcessRuns /\ wpc[t] = "execute"
    /\ command_data[t].data.command = "show"
    /\ device' = Flush(pixels, brightness)
    /\ flushes' = flushes + 1
    /\ Leave(t, TRUE)
    /\ UNCHANGED <<workload, appliedLevel, reference, mainVars, spc, led_lock, command_queue, threadVars,
                   shutdown_flag, command_data, wi, pixels, brightness,
                   enqueued, history, seqStrip>>

\* A set_brightness that also calls pixels.show(), as a strip built with
\* auto_write=True would.
ExecSetBrightnessShows(t) ==
    /\ ProcessRuns /\ wpc[t] = "execute"
    /\ command_data[t].data.command = "set_brightness"
    /\ LET r == BrightnessRule(command_data[t].data.brightness)
       IN  /\ brightness' = IF r.ok THEN r.v ELSE brightness
           /\ device' = IF r.ok THEN Flush(pixels, r.v) ELSE device
           /\ flushes' = IF r.ok THEN flushes + 1 ELSE flushes
           /\ Leave(t, r.ok)
    /\ appliedLevel' = command_data[t].data.brightness
    /\ UNCHANGED <<workload, reference, mainVars, spc, led_lock,
                   command_queue, threadVars, shutdown_flag, command_data,
                   wi, pixels, enqueued, history, seqStrip>>

\* Lines 88-91.
ExecSetBrightness(t) ==
    /\ ProcessRuns /\ wpc[t] = "execute"
    /\ command_data[t].data.command = "set_brightness"
    /\ LET r == BrightnessRule(command_data[t].data.brightness)
       IN  /\ brightness' = IF r.ok THEN r.v ELSE brightness
           /\ Leave(t, r.ok)
    /\ appliedLevel' = command_data[t].data.brightness
    /\ UNCHANGED <<workload, reference, mainVars, spc, led_lock, command_queue, threadVars,
                   shutdown_flag, command_data, wi, pixels, device, flushes,
                   enqueued, history, seqStrip>>

\* A worker that an exception in a command ends, and one that tests the
\* stop signal only when the queue is empty.
AfterCommandDies(ok) == IF ok THEN "loop" ELSE "exited"
AfterCommandDrains(ok) == "get"

\* Where the worker goes after one command, whether or not it raised
\* (lines 54-57): back to the loop test.
AfterCommand(ok) == "loop"

\* A lock released by hand after the command, and so kept when it raises.
HeldOnFailure(ok) == ~ok

\* Line 51: the with statement releases _led_lock however its block ends;
\* the value is that of led_lock afterwards.
HeldAfterCommand(ok) == FALSE

\* Lines 54-57: the exception, if any, is printed, task_done is called and
\* the lock is released.
WorkerFinally(t) ==
    /\ ProcessRuns /\ wpc[t] = "finally"
    /\ led_lock' = HeldAfterCommand(~raised[t])
    /\ wpc' = [wpc EXCEPT ![t] = AfterCommand(~raised[t])]
    /\ raised' = [raised EXCEPT ![t] = FALSE]
    /\ command_data' = [command_data EXCEPT ![t] = NoEntry]
    /\ finished' = finished + 1
    /\ prevFailed' = raised[t]
    /\ UNCHANGED <<workload, appliedLevel, reference, mainVars, spc, command_queue, threadVars, shutdown_flag,
                   wi, strip, enqueued, started, seqStrip>>

\* ------------------------------------------------------ signal_handler
\* Line 97: there is a thread and it is alive.
JoinWaits ==
    IF processing_thread = None THEN FALSE ELSE is_alive(processing_thread)

\* Lines 200-201, 188-189, 96: SIGINT or SIGTERM runs signal_handler on the
\* main thread, on top of whatever it was doing; shutdown_processing sets
\* the flag.
Signal ==
    /\ spc = "none"
    /\ shutdown_flag' = TRUE
    /\ spc' = "join"
    /\ UNCHANGED <<workload, appliedLevel, reference, mainVars, led_lock, command_queue, threadVars,
                   workerVars, strip, enqueued, history, seqStrip>>

\* Lines 97-98: no thread, a thread that is not alive, or one whose join
\* returns because it ended.
JoinDone ==
    /\ spc = "join"
    /\ ~JoinWaits
    /\ spc' = "lock"
    /\ UNCHANGED <<workload, appliedLevel, reference, mainVars, led_lock, command_queue, threadVars,
                   shutdown_flag, workerVars, strip, enqueued, history,
                   seqStrip>>

\* Line 98: join(timeout=1.0) gives up on a thread that is still alive.
JoinTimeout ==
    /\ spc = "join"
    /\ JoinWaits
    /\ spc' = "lock"
    /\ UNCHANGED <<workload, appliedLevel, reference, mainVars, led_lock, command_queue, threadVars,
                   shutdown_flag, workerVars, strip, enqueued, history,
                   seqStrip>>

\* Line 192.
SignalLock ==
    /\ spc = "lock"
    /\ LockFree
    /\ led_lock' = TRUE
    /\ spc' = "blank"
    /\ UNCHANGED <<workload, appliedLevel, reference, mainVars, command_queue, threadVars,
                   shutdown_flag, workerVars, strip, enqueued, history,
                   seqStrip>>

\* Lines 193-194 and the end of the with block: fill, show, release.
SignalBlank ==
    /\ spc = "blank"
    /\ pixels' = AllBlack
    /\ device' = Flush(AllBlack, brightness)
    /\ flushes' = flushes + 1
    /\ led_lock' = FALSE
    /\ spc' = "exit"
    /\ UNCHANGED <<workload, appliedLevel, reference, mainVars, command_queue, threadVars,
                   shutdown_flag, workerVars, brightness, enqueued, history,
                   seqStrip>>

\* Lines 196, 217-219: sys.exit(0) raises SystemExit, which unwinds the main
\* thread out of serve_forever; the finally block calls shutdown_processing
\* once more (the flag is set; the join returns or times out) and
\* server.shutdown(), and the process ends, its daemon worker with it.
SysExit ==
    /\ spc = "exit"
    /\ spc' = "terminated"
    /\ UNCHANGED <<workload, appliedLevel, reference, mainVars, led_lock, command_queue, threadVars,
                   shutdown_flag, workerVars, strip, enqueued, history,
                   seqStrip>>

\* ---------------------------------------------------------------- spec
Main ==
    \/ MainStart \/ StartAgain \/ StartCheck \/ StartCreate \/ StartRun
    \/ DoOptions \/ DoPost \/ DoPostPut \/ DoPostMessage
    \/ ConfigLock \/ ConfigRead \/ DoGet \/ StatusLock \/ StatusRead

Worker(t) ==
    \/ WorkerLoop(t) \/ WorkerGet(t) \/ WorkerEmpty(t) \/ WorkerLock(t)
    \/ ExecSetPixel(t) \/ ExecSetPixels(t) \/ ExecShow(t)
    \/ ExecSetBrightness(t) \/ WorkerFinally(t)

Shutdown ==
    \/ Signal \/ JoinDone \/ JoinTimeout \/ SignalLock \/ SignalBlank
    \/ SysExit

Next == Main \/ (\E t \in Threads : Worker(t)) \/ Shutdown

Spec == Init /\ [][Next]_vars

\* ---------------------------------------------------------- properties
\* Tasks inside the exclusive-access guard.
WorkersInGuard == {t \in Threads : wpc[t] \in {"execute", "finally"}}
ReaderInGuard == mpc \in {"config_read", "status_read"}
HandlerInGuard == spc = "blank"

\* Every entry put so far has been applied and the worker is idle.
Quiescent ==
    /\ command_queue = <<>>
    /\ finished = enqueued
    /\ Len(started) = enqueued

\* C1: commands are applied in the order their enqueue completed, across
\* producers: the k-th application to begin is that of the k-th entry put,
\* and an application begins only when every earlier one has ended (no
\* reordering, no batching).
C1_FifoOrder ==
    /\ \A i \in 1..Len(started) : started[i].id = i
    /\ Len(started) <= enqueued
    /\ finished \in {Len(started) - 1, Len(started)}
    /\ finished = Len(started) - 1 <=> WorkersInGuard # {}
    /\ Cardinality(WorkersInGuard) <= 1

\* Two producers' entries were queued together and both have been applied,
\* the second after the first had ended, with a third still waiting.
C1_Witness ==
    /\ Len(started) = 2
    /\ finished = 2
    /\ started[1].prod # started[2].prod
    /\ command_queue # <<>>

\* C2: at most one task is inside the guard: the worker applying a command,
\* the signal handler blanking the strip and a get_config / status read
\* never overlap.
C2_MutualExclusion ==
    Cardinality(WorkersInGuard)
      + (IF ReaderInGuard THEN 1 ELSE 0)
      + (IF HandlerInGuard THEN 1 ELSE 0) <= 1

\* The worker applies a command while a get_config read waits for the lock.
C2_Witness ==
    /\ mpc = "config_lock"
    /\ WorkersInGuard # {}
    /\ led_lock

\* C3: with no shutdown requested, once the worker has processed every
\* enqueued typed command the flushed device state and the number of
\* flushes are those of the interpretation rules applied one command after
\* the other in submission order, out-of-range indices skipped.
C3_FlushedMatchesReference ==
    (spc = "none" /\ typed /\ Quiescent)
    => /\ device = refStrip.device
       /\ flushes = refStrip.flushes

\* set_pixel 0 red, set_pixel 1 green, show: pixel 0 red, pixel 1 green,
\* one flush.
C3_Witness ==
    /\ spc = "none" /\ typed /\ Quiescent
    /\ enqueued = 3
    /\ flushes = 1
    /\ device.buf[0] = <<255, 0, 0>>
    /\ device.buf[1] = <<0, 255, 0>>

\* Entries dequeued whose application has not begun.
InFlight == {t \in Threads : wpc[t] = "lock"}

\* C4: no command is lost or duplicated: the entries waiting, in flight and
\* applied are, each once, exactly the entries put; each producer's entries
\* are applied in the order it submitted them; and once all are applied
\* (no shutdown requested) the strip is the one a single caller running the
\* same commands in enqueue order would leave.
C4_NoLossNoDuplication ==
    /\ { command_queue[i].id : i \in 1..Len(command_queue) }
         \cup { command_data[t].id : t \in InFlight }
         \cup { started[i].id : i \in 1..Len(started) } = 1..enqueued
    /\ Len(command_queue) + Cardinality(InFlight) + Len(started) = enqueued
    /\ \A i, j \in 1..Len(started) :
         (i < j /\ started[i].prod = started[j].prod)
         => started[i].id < started[j].id
    /\ (spc = "none" /\ Quiescent)
       => [pixels |-> pixels, brightness |-> brightness, device |-> device,
           flushes |-> flushes] = seqStrip

\* Two producers have submitted three commands between them, one producer
\* two of them with the other's in between, and all have been applied.
C4_Witness ==
    /\ spc = "none" /\ Quiescent
    /\ enqueued = 3
    /\ started[1].prod = started[3].prod
    /\ started[1].prod # started[2].prod
    /\ device.buf[0] # Black

\* C5: once the process has ended through the shutdown sequence the buffer
\* is all black and so is the state last flushed to the device.
C5_ShutdownLeavesBlack ==
    spc = "terminated"
    => /\ pixels = AllBlack
       /\ device.buf = AllBlack

\* C6: a get_config or status read is taken only while no worker is between
\* the start and the end of one command's application.
C6_ReadNotMidCommand ==
    [][(mpc \in {"config_read", "status_read"} /\ mpc' = "serve")
       => WorkersInGuard = {}]_vars

\* A read holds the lock while the worker, its command dequeued, waits.
C6_Witness ==
    /\ mpc = "status_read"
    /\ InFlight # {}
    /\ \E t \in InFlight : command_data[t].data.command = "set_pixels"

\* C7: the stored brightness, the brightness flushed and any brightness a
\* get_config or status response reports lie in [0.0, 1.0].
C7_BrightnessInRange ==
    /\ brightness \in MinBrightness..MaxBrightness
    /\ device.brightness \in MinBrightness..MaxBrightness
    /\ resp.brightness \in {-1} \cup MinBrightness..MaxBrightness

\* A level above 1.0 was stored as 1.0 and get_config reports it.
C7_Witness ==
    /\ resp.status = 200
    /\ resp.brightness = MaxBrightness
    /\ finished >= 1

\* C8: a command that raises does not stop the worker: it ends only once
\* the stop signal is set, and after a failing command it releases the lock
\* and is back at the loop test.
C8_WorkerSurvivesFailure ==
    [][\A t \in Threads :
         /\ wpc'[t] = "exited" => shutdown_flag'
         /\ (wpc[t] = "finally" /\ raised[t] /\ wpc'[t] # "finally")
            => (wpc'[t] = "loop" /\ ~led_lock' /\ finished' = finished + 1)]_vars

\* The command before this one raised, no stop signal is set, and the
\* worker is applying the next.
C8_Witness ==
    /\ prevFailed
    /\ ~shutdown_flag
    /\ \E t \in Threads : wpc[t] = "execute" /\ command_data[t].id = finished + 1

\* C9: the response and the queue agree: a request answered 400 has put
\* nothing on the queue, and a request that put an entry is answered 200
\* with success.
C9_ResponseMatchesQueue ==
    (mpc = "serve" /\ resp.status # 0)
    => /\ resp.status = 400 => ~reqEnq
       /\ reqEnq => (resp.status = 200 /\ resp.success)

\* C10: at most one worker thread is alive.
C10_SingleWorker ==
    Cardinality({t \in Threads : is_alive(t)}) <= 1

\* start_processing_thread is called again while the worker runs.
C10_Witness ==
    /\ mpc = "start_check"
    /\ processing_thread # None
    /\ is_alive(processing_thread)
    /\ finished >= 1

\* The level a set_brightness command stores, by its interpretation rule:
\* the level clamped into [0.0, 1.0], in tenths.
RefLevel(level) ==
    IF level.v < 0 THEN 0 ELSE IF level.v > 10 THEN 10 ELSE level.v

\* A get_config request is answered.
ConfigAnswered == mpc = "config_read" /\ mpc' = "serve"

\* C11 as stated: a get_config answered after a set_brightness request with
\* level L was acknowledged (its entry put, none put since) reports the
\* clamped L.
C11_AcknowledgedThenRead ==
    [][(ConfigAnswered /\ putLevel.t = "int")
       => resp'.brightness = RefLevel(putLevel)]_vars

\* C11 amended: a get_config answered after the worker has applied a
\* set_brightness command with level L (and no later one) reports the
\* clamped L.
C11_AppliedThenRead ==
    [][(ConfigAnswered /\ appliedLevel.t = "int")
       => resp'.brightness = RefLevel(appliedLevel)]_vars

\* set_brightness 1.5 was applied and get_config has reported 1.0.
C11_Witness ==
    /\ appliedLevel = Int_(15)
    /\ nreq = 2
    /\ mpc = "serve"
    /\ resp = Response(200, TRUE, MaxBrightness, -1)

\* The shutdown sequence has begun and the process has not ended.
ShuttingDown == spc \in {"join", "lock", "blank", "exit"}

\* C12: a shutdown requested in any reachable state never deadlocks: while
\* the sequence is under way some thread can always take a step (the
\* handler, or the worker whose exit or lock release it waits for), so
\* that it goes on to blank the strip and end the process.
C12_ShutdownNeverDeadlocks == ShuttingDown => ENABLED Next

\* C13: enqueueing never waits on the hardware: a handler that has a
\* mutating command to put can always put it, also while the worker holds
\* the guard; the put leaves the guard alone and appends the command to the
\* tail, every entry already waiting kept.
C13_EnqueueNeverWaits ==
    /\ []((MainRuns /\ mpc = "put") => PutEnabled)
    /\ [][(mpc = "put" /\ mpc' = "message")
          => /\ led_lock' = led_lock
             /\ Len(command_queue') = Len(command_queue) + 1
             /\ SubSeq(command_queue', 1, Len(command_queue)) = command_queue
             /\ command_queue'[Len(command_queue')].data = req.body]_vars

\* A handler is about to put a command while the worker holds the guard
\* applying one, another entry waiting.
C13_Witness ==
    /\ MainRuns /\ mpc = "put"
    /\ led_lock /\ WorkersInGuard # {}
    /\ command_queue # <<>>

\* The worker applies a show command; the signal handler blanks the strip.
ShowApplied ==
    \E t \in Threads :
      /\ wpc[t] = "execute" /\ wpc'[t] = "finally"
      /\ command_data[t].data.command = "show"
Blanked == spc = "blank" /\ spc' = "exit"

\* C14: the flushed state changes, and a flush is counted, only when the
\* worker applies a show command or the shutdown sequence blanks the strip;
\* each show applied is one flush of the buffer and brightness as they are;
\* set_pixel, set_pixels and set_brightness change the buffer and the
\* brightness only.
C14_OnlyShowFlushes ==
    [][/\ (device' # device \/ flushes' # flushes) => (ShowApplied \/ Blanked)
       /\ ShowApplied
          => /\ flushes' = flushes + 1
             /\ device' = [buf |-> pixels, brightness |-> brightness]
             /\ pixels' = pixels /\ brightness' = brightness
       /\ Blanked => flushes' = flushes + 1]_vars

\* After one show, a set_pixel and a set_brightness have been applied and
\* the device still shows the state of the one flush.
C14_Witness ==
    /\ flushes = 1
    /\ finished = 3
    /\ pixels # device.buf
    /\ brightness # device.brightness
    /\ spc = "none"

\* The pixels of the strip.
Positions == 0..(LED_COUNT - 1)

\* C15: a set_pixel command whose index is absent or an integer outside
\* [0, LED_COUNT) is acknowledged as queued and, applied, raises nothing
\* and leaves every pixel, the brightness, the flushed state and the length
\* of the strip as they were; one whose index is in range changes no pixel
\* but the one at that index.
C15_OutOfRangeIsNoOp ==
    [][/\ \A t \in Threads :
            (/\ wpc[t] = "execute" /\ wpc'[t] = "finally"
             /\ command_data[t].data.command = "set_pixel")
            => LET index == command_data[t].data.index
               IN  /\ DOMAIN pixels' = Positions
                   /\ brightness' = brightness
                   /\ device' = device /\ flushes' = flushes
                   /\ (index.t = "absent"
                       \/ (index.t = "int" /\ index.v \notin Positions))
                      => (pixels' = pixels /\ ~raised'[t])
                   /\ (index.t = "int" /\ index.v \in Positions)
                      => \A i \in Positions \ {index.v} :
                            pixels'[i] = pixels[i]
       /\ (/\ mpc = "message" /\ mpc' = "serve"
           /\ req.body.command = "set_pixel")
          => (resp'.status = 200 /\ resp'.success)]_vars

\* Three set_pixel commands with index -1, index LED_COUNT or no index
\* have been acknowledged and applied, the last without raising: the strip
\* is as it was at the start.
C15_Witness ==
    /\ workload = RangeWorkload
    /\ finished = 3
    /\ ~prevFailed
    /\ seqStrip = InitialStrip
    /\ pixels = AllBlack
    /\ resp.status = 200
    /\ spc = "none"

\* An entry of a set_pixels list the data model allows and the SetPixel
\* rule writes: an integer index in range with a colour "#RRGGBB" or none.
ValidEntry(e) ==
    /\ TypedPixel(e.index, e.color)
    /\ e.index.v \in Positions

\* C16: once a set_pixels command has been applied, every valid entry of
\* its list has been written, whatever invalid entries stand before or
\* after it: each pixel a valid entry names holds the colour of the last
\* valid entry naming it.
C16_InvalidEntrySkipped ==
    \A t \in Threads :
      (/\ wpc[t] = "finally"
       /\ command_data[t].data.command = "set_pixels"
       /\ command_data[t].data.pixels.t = "list")
      => LET l == command_data[t].data.pixels.l
         IN  \A k \in 1..Len(l) :
               (/\ ValidEntry(l[k])
                /\ \A j \in (k + 1)..Len(l) :
                     ~(ValidEntry(l[j]) /\ l[j].index = l[k].index))
               => pixels[l[k].index.v] = RefColor(l[k].color)

\* Entries the worker has taken from the queue, and workers that have
\* passed the loop test and will take the next entry if there is one.
Taken == Len(started) + Cardinality(InFlight)
Polling == {t \in Threads : wpc[t] = "get"}

\* C17: once the stop signal is set the worker takes no further entries
\* beyond the one it is committed to.  At most one worker is polling or
\* holds an entry not yet applied, and from then on no step adds to the
\* entries taken plus the polls still open: so after the signal at most one
\* entry is dequeued and at most one application begins (that of the entry
\* in hand, or of the one the open poll returns).  The queue loses entries
\* only at its head, one per poll, the rest staying where they are; and
\* the worker leaves only from the loop test, never with a command in hand.
C17_StopsAfterInFlight ==
    [][shutdown_flag
       => /\ Cardinality(InFlight \cup Polling \cup WorkersInGuard) <= 1
          /\ Taken' + Cardinality(Polling') <= Taken + Cardinality(Polling)
          /\ Taken' <= Taken + 1
          /\ \/ command_queue' = command_queue
             \/ /\ command_queue # <<>>
                /\ command_queue' = Tail(command_queue)
                /\ Polling' = {} /\ Polling # {}
          /\ \A t \in Threads :
               (wpc'[t] = "exited" /\ wpc[t] # "exited")
               => (wpc[t] = "loop" /\ command_data[t] = NoEntry)]_vars

\* The stop signal is set and the worker has left its loop with an entry
\* still waiting in the queue, after applying one.
C17_Witness ==
    /\ shutdown_flag
    /\ \E t \in Threads : wpc[t] = "exited"
    /\ \A t \in Threads : wpc[t] \in {"exited", "unborn"}
    /\ command_queue # <<>>
    /\ finished = 1

\* C18: once the stop signal is set a worker still in its loop is never
\* left waiting for good: as long as the process runs some thread can take
\* a step (the worker itself, or the holder of the lock it waits for), so
\* that under fair scheduling it comes to the loop test and leaves.
C18_StoppedWorkerNotStuck ==
    \A t \in Threads :
      (shutdown_flag /\ ProcessRuns /\ is_alive(t)) => ENABLED Next

\* A step of a get_config or GET /status request: it is read, it takes the
\* lock, it reads and answers.
ReadStep ==
    \/ mpc = "serve" /\ mpc' \in {"config_lock", "status_lock"}
    \/ mpc \in {"config_lock", "status_lock"} /\ mpc' # mpc
    \/ mpc \in {"config_read", "status_read"} /\ mpc' # mpc

\* C19: get_config and GET /status are read-only and bypass the queue: no
\* step of theirs changes the queue, the buffer, the brightness or the
\* flushed state, and the answer carries the brightness stored at that
\* moment and, for status, the number of entries then waiting.
C19_ReadsChangeNothing ==
    [][ReadStep
       => /\ UNCHANGED <<command_queue, enqueued, pixels, brightness, device,
                         flushes>>
          /\ (mpc \in {"config_read", "status_read"})
             => /\ resp'.status = 200 /\ resp'.success
                /\ resp'.brightness = brightness
          /\ (mpc = "config_read") => resp'.queue_size = -1
          /\ (mpc = "status_read")
             => resp'.queue_size = Len(command_queue)]_vars

\* GET /status has been answered with one entry waiting and one applied,
\* a set_pixel whose colour is not yet flushed.
C19_Witness ==
    /\ mpc = "serve" /\ nreq = 3
    /\ resp.status = 200 /\ resp.queue_size = 1
    /\ Len(command_queue) = 1
    /\ finished = 1
    /\ pixels # device.buf
    /\ spc = "none"

\* C20: the lock is held exactly while some task is inside the guard, and
\* a worker is inside it only with the one command it has dequeued: while
\* every worker is at the loop test, polling the queue, waiting for the
\* lock or gone, and neither a read nor the signal handler is inside, the
\* lock is free, whether or not the last command raised.
C20_LockHeldOnlyWhileApplying ==
    /\ led_lock <=> (WorkersInGuard # {} \/ ReaderInGuard \/ HandlerInGuard)
    /\ \A t \in Threads :
         /\ t \in WorkersInGuard
            => (command_data[t] # NoEntry
                /\ command_data[t].id = Len(started))
         /\ wpc[t] \in {"unborn", "new", "loop", "get", "exited"}
            => command_data[t] = NoEntry

\* After a command that raised, the worker idle again, a status read has
\* taken the lock.
C20_Witness ==
    /\ prevFailed
    /\ \E t \in Threads : wpc[t] \in {"loop", "get"}
    /\ WorkersInGuard = {} /\ InFlight = {}
    /\ mpc = "status_read"
    /\ led_lock

====
